---- MODULE Spec2Model ----
(***************************************************************************)
(* Water-quality dashboard (src/main.py): the update_dashboard callback    *)
(* (fetch, window, resample, present) and the export_data callback.        *)
(*                                                                         *)
(* Time is counted in minutes from local midnight of the store's day.      *)
(* A field value is NaN (missing) or a fraction <<n, d>> of thousandths,   *)
(* d > 0, in lowest terms; a raw reading value is <<n, 1>>.                *)
(* An optional value (Python None) is <<>>, a present one <<v>>.           *)
(***************************************************************************)
EXTENDS Integers, Sequences, FiniteSets, TLC

VARIABLES
    df,               \* Data Store: today's readings, as get_todays_data returns them
    selected_params,  \* parameter-select.value
    time_range,       \* time-range-select.value
    aggregation,      \* aggregation-select.value
    custom_start,     \* date-picker-range.start_date
    custom_end,       \* date-picker-range.end_date
    n_clicks,         \* export-btn.n_clicks
    figure,           \* time-series-plot.figure (its traces)
    table_data,       \* data-table.data
    columns,          \* data-table.columns
    stored_data,      \* data-store.data
    card_values,      \* the four "<param>-value" children
    download,         \* download-data.data
    status,           \* how the last update_dashboard call ended
    df_filtered,      \* update_dashboard's local df_filtered in the last call
    completed         \* history: df_agg of the most recent call that returned

inputs  == <<selected_params, time_range, aggregation, custom_start, custom_end>>
outputs == <<figure, table_data, columns, stored_data, card_values>>
vars    == <<df, inputs, n_clicks, outputs, download, status, df_filtered, completed>>

----------------------------------------------------------------------------
(* Bounds of the model *)

MaxReadings == 2
MaxClicks == 2
SessionMaxReadings == 2

(* Timestamps a reading may carry: pairs 60, 360 and 720 minutes apart sit *)
(* on the window bounds, 0/5 share a 10-minute bucket, 5/25 leave one out. *)
Times == {0, 5, 25, 65, 365, 725}

----------------------------------------------------------------------------
(* Values *)

None == <<>>
Some(v) == <<v>>
NaN == <<>>
NaT == <<>>
Num(n) == <<n, 1>>
IsNaN(c) == c = NaN

PARAMETERS == <<"pH", "TDS", "Depth", "FlowInd">>

TIME_RANGES == {"1H", "6H", "12H", "1D", "1W", "Custom"}

AGGREGATIONS == {"10T", "30T", "H", "4H", "D"}

(* The field values of one sensor sample. *)
SampleValues ==
    { [pH |-> Num(7000), TDS |-> Num(300125), Depth |-> NaN, FlowInd |-> Num(0)],
      [pH |-> Num(7125), TDS |-> NaN,         Depth |-> NaN, FlowInd |-> Num(10)] }

Reading(t, v) ==
    [timestamp |-> t, pH |-> v.pH, TDS |-> v.TDS, Depth |-> v.Depth, FlowInd |-> v.FlowInd]

Readings(times) == {Reading(t, v) : t \in times, v \in SampleValues}

LastTimestamp(d) == IF Len(d) = 0 THEN -1 ELSE d[Len(d)].timestamp

(* process_and_store_data followed by get_todays_data: the fetch fails or  *)
(* brings nothing new (the store is kept), brings one newer reading, or    *)
(* the day has rolled over and today has no reading yet.                   *)
FetchOutcomes(d, cap, times) ==
    {d} \cup {<<>>}
        \cup {Append(d, r) : r \in {x \in Readings(times) : /\ Len(d) < cap
                                                            /\ x.timestamp > LastTimestamp(d)}}

----------------------------------------------------------------------------
(* Windower: update_dashboard, "Time range filtering" *)

(* Mutant: tests the frame for None, which it never is. *)
DfIsNone(d) == FALSE

DfEmpty(d) == Len(d) = 0

(* df['timestamp'].max(): NaT on an empty frame. *)
RECURSIVE MaxOf(_, _)
MaxOf(d, i) ==
    IF i = 0 THEN NaT
    ELSE LET m == MaxOf(d, i - 1)
             t == d[i].timestamp
         IN  IF m = NaT \/ t > m[1] THEN Some(t) ELSE m

MaxTimestamp(d) == MaxOf(d, Len(d))

RECURSIVE MinOf(_, _)
MinOf(d, i) ==
    IF i = 0 THEN NaT
    ELSE LET m == MinOf(d, i - 1)
             t == d[i].timestamp
         IN  IF m = NaT \/ t < m[1] THEN Some(t) ELSE m

(* The earliest timestamp of the resampled axis. *)
MinTimestamp(d) == MinOf(d, Len(d))

DefaultHours == 6

(* Mutant: an unlisted range falls back to 1 hour. *)
hours_delta_default_1h(tr) ==
    CASE tr = Some("1H")  -> 1
      [] tr = Some("6H")  -> 6
      [] tr = Some("12H") -> 12
      [] tr = Some("1D")  -> 24
      [] tr = Some("1W")  -> 168
      [] OTHER            -> 1

hours_delta(tr) ==
    CASE tr = Some("1H")  -> 1
      [] tr = Some("6H")  -> 6
      [] tr = Some("12H") -> 12
      [] tr = Some("1D")  -> 24
      [] tr = Some("1W")  -> 168
      [] OTHER            -> DefaultHours

(* pd.to_datetime of the date picker's "YYYY-MM-DD": midnight of that day; *)
(* the day is counted from the store's day (0 today, 1 tomorrow).          *)
to_datetime(date) == Some(date[1] * 1440)

(* A None or empty picker value is falsy. *)
Truthy(date) == date # None

(* end_time - pd.Timedelta(hours=h); NaT stays NaT. *)
MinusHours(t, h) == IF t = NaT THEN NaT ELSE Some(t[1] - h * 60)

UseCustom(tr, cs, ce) == tr = Some("Custom") /\ Truthy(cs) /\ Truthy(ce)

(* Mutant: custom bounds given in the wrong order are swapped. *)
SelectWindowOrdered(d, tr, cs, ce) ==
    LET end_time == MaxTimestamp(d)
    IN  IF UseCustom(tr, cs, ce)
        THEN [start |-> to_datetime(IF cs[1] <= ce[1] THEN cs ELSE ce),
              end   |-> to_datetime(IF cs[1] <= ce[1] THEN ce ELSE cs)]
        ELSE [start |-> MinusHours(end_time, hours_delta(tr)), end |-> end_time]

SelectWindow(d, tr, cs, ce) ==
    LET end_time == MaxTimestamp(d)
    IN  IF UseCustom(tr, cs, ce)
        THEN [start |-> to_datetime(cs), end |-> to_datetime(ce)]
        ELSE [start |-> MinusHours(end_time, hours_delta(tr)), end |-> end_time]

(* Mutant: inclusive="right". *)
BetweenLeftOpen(t, left, right) ==
    /\ left # NaT
    /\ right # NaT
    /\ left[1] < t
    /\ t <= right[1]

(* Series.between(left, right), inclusive="both"; a NaT bound matches nothing. *)
Between(t, left, right) ==
    /\ left # NaT
    /\ right # NaT
    /\ left[1] <= t
    /\ t <= right[1]

FilterWindow(d, w) == SelectSeq(d, LAMBDA r : Between(r.timestamp, w.start, w.end))

----------------------------------------------------------------------------
(* Aggregator: df_filtered.resample(aggregation, on='timestamp').agg(mean) *)

(* The width in minutes of a pandas offset alias offered by the dropdown. *)
Freq(alias) ==
    CASE alias = "10T" -> 10
      [] alias = "30T" -> 30
      [] alias = "H"   -> 60
      [] alias = "4H"  -> 240
      [] alias = "D"   -> 1440

(* resample raises on rule=None (the dropdown cleared). *)
ValidRule(ag) == ag # None /\ ag[1] \in AGGREGATIONS

RECURSIVE GCD(_, _)
GCD(a, b) == IF b = 0 THEN a ELSE GCD(b, a % b)

Reduce(n, d) == LET g == GCD(n, d) IN IF g = 0 THEN <<0, 1>> ELSE <<n \div g, d \div g>>

(* Mutant: bins labelled by their right edge. *)
BinStartRight(t, w) == ((t + w - 1) \div w) * w

(* The bin a timestamp falls in: origin 'start_day' (midnight), closed and *)
(* labelled on the left.                                                   *)
BinStart(t, w) == (t \div w) * w

InBin(r, b, w) == b <= r.timestamp /\ r.timestamp < b + w

RECURSIVE SumOf(_, _)
SumOf(s, f) == IF Len(s) = 0 THEN 0 ELSE s[1][f][1] + SumOf(Tail(s), f)

(* Mutant: NaN counts as 0 (fillna(0) before the mean). *)
MeanNaNAsZero(s, f) ==
    LET present == SelectSeq(s, LAMBDA r : ~IsNaN(r[f]))
    IN  IF Len(s) = 0 THEN NaN ELSE Reduce(SumOf(present, f), Len(s))

(* 'mean' skips NaN; the mean of no value is NaN. *)
Mean(s, f) ==
    LET present == SelectSeq(s, LAMBDA r : ~IsNaN(r[f]))
    IN  IF Len(present) = 0 THEN NaN ELSE Reduce(SumOf(present, f), Len(present))

AggRow(dff, b, w) ==
    LET s == SelectSeq(dff, LAMBDA r : InBin(r, b, w))
    IN  [timestamp |-> b,
         pH        |-> Mean(s, "pH"),
         TDS       |-> Mean(s, "TDS"),
         Depth     |-> Mean(s, "Depth"),
         FlowInd   |-> Mean(s, "FlowInd")]

(* Mutant: groupby instead of resample, a row for the non-empty bins only. *)
ResampleNonEmptyBins(dff, w) ==
    IF Len(dff) = 0 THEN <<>>
    ELSE LET first == BinStart(MinTimestamp(dff)[1], w)
             last  == BinStart(MaxTimestamp(dff)[1], w)
             all   == [k \in 1..((last - first) \div w + 1) |-> first + (k - 1) * w]
             kept  == SelectSeq(all, LAMBDA b : \E i \in 1..Len(dff) : InBin(dff[i], b, w))
         IN  [k \in 1..Len(kept) |-> AggRow(dff, kept[k], w)]

(* One row per bin from the earliest reading's bin to the latest one's,    *)
(* the empty bins included; no row for an empty frame.                     *)
Resample(dff, w) ==
    IF Len(dff) = 0 THEN <<>>
    ELSE LET first == BinStart(MinTimestamp(dff)[1], w)
             last  == BinStart(MaxTimestamp(dff)[1], w)
         IN  [k \in 1..((last - first) \div w + 1) |-> AggRow(dff, first + (k - 1) * w, w)]

----------------------------------------------------------------------------
(* Presenter *)

(* isinstance(selected_params, str): a single name becomes a one-name list. *)
(* A selection is [kind |-> "none" | "str" | "list", val |-> names].        *)
NormaliseParams(sp) == IF sp.kind = "str" THEN [kind |-> "list", val |-> sp.val] ELSE sp

(* Iterating None raises TypeError. *)
Iterable(sp) == sp.kind = "list"

Column(agg, f) == [k \in 1..Len(agg) |-> agg[k][f]]

(* One go.Scatter per selected parameter: x the bucket starts, y the means. *)
Traces(agg, names) ==
    [k \in 1..Len(names) |->
        [param |-> names[k], x |-> Column(agg, "timestamp"), y |-> Column(agg, names[k])]]

(* df_agg.columns after reset_index. *)
AggColumns == <<"timestamp">> \o PARAMETERS

TableColumns(cols) == [k \in 1..Len(cols) |-> [name |-> cols[k], id |-> cols[k]]]

Pad2(n) == IF n < 10 THEN "0" \o ToString(n) ELSE ToString(n)

(* f"{x:.2f}" of a raw value of n thousandths: the nearest hundredth, a     *)
(* tie going to the even one (the values modelled are exact in binary).    *)
Format2(c) ==
    IF IsNaN(c) THEN "nan"
    ELSE LET q == c[1] \div 10
             r == c[1] % 10
             h == IF r > 5 \/ (r = 5 /\ q % 2 = 1) THEN q + 1 ELSE q
         IN  ToString(h \div 100) \o "." \o Pad2(h % 100)

(* df.iloc[-1] raises IndexError on a frame without rows. *)
HasLastRow(d) == Len(d) > 0

(* Mutant: df.iloc[0]. *)
FirstRow(d) == d[1]

(* latest_row = df.iloc[-1] *)
LatestRow(d) == d[Len(d)]

LatestValues(d) == [k \in 1..Len(PARAMETERS) |-> Format2(LatestRow(d)[PARAMETERS[k]])]

Placeholders == [k \in 1..Len(PARAMETERS) |-> "--"]

(* date_format='iso': the timestamp broken down into day, hour and minute. *)
IsoFormat(t) == [day |-> t \div 1440, hh |-> (t % 1440) \div 60, mm |-> t % 60]

IsoParse(i) == i.day * 1440 + i.hh * 60 + i.mm

(* A decimal expansion ends iff the denominator has no prime factor but 2 and 5. *)
RECURSIVE Strip(_, _)
Strip(d, p) == IF d % p = 0 THEN Strip(d \div p, p) ELSE d

Terminates(d) == Strip(Strip(d, 2), 5) = 1

(* to_json writes a float with double_precision=10 and NaN as null: a mean  *)
(* whose expansion does not end is written rounded to 10 decimals.          *)
JsonNumber(c) ==
    IF IsNaN(c) THEN [type |-> "null"]
    ELSE [type |-> "number", n |-> c[1], d |-> c[2], decimals |-> IF Terminates(c[2]) THEN 0 ELSE 10]

(* read_json: null is NaN again; a rounded number stays rounded, <<n, d, 10>>. *)
FromJsonNumber(j) ==
    IF j.type = "null" THEN NaN
    ELSE IF j.decimals = 0 THEN <<j.n, j.d>> ELSE <<j.n, j.d, j.decimals>>

JsonRow(row) ==
    <<IsoFormat(row.timestamp), JsonNumber(row.pH), JsonNumber(row.TDS),
      JsonNumber(row.Depth), JsonNumber(row.FlowInd)>>

(* data-store values: None (never written), {} and a JSON document. *)
StoreNone == [kind |-> "none"]
StoreEmptyDict == [kind |-> "dict"]

(* df_agg.to_json(date_format='iso', orient='split') *)
ToJson(agg) ==
    [kind    |-> "json",
     columns |-> AggColumns,
     index   |-> [k \in 1..Len(agg) |-> k - 1],
     data    |-> [k \in 1..Len(agg) |-> JsonRow(agg[k])]]

(* pd.read_json(stored_data, orient='split'): the frame's rows. *)
ReadJson(doc) ==
    [k \in 1..Len(doc.data) |->
        [timestamp |-> IsoParse(doc.data[k][1]),
         pH        |-> FromJsonNumber(doc.data[k][2]),
         TDS       |-> FromJsonNumber(doc.data[k][3]),
         Depth     |-> FromJsonNumber(doc.data[k][4]),
         FlowInd   |-> FromJsonNumber(doc.data[k][5])]]

----------------------------------------------------------------------------
(* update_dashboard *)

(* return px.line(), [], [], {}, '--', '--', '--', '--' *)
EmptyResult ==
    [status      |-> "ok",
     df_filtered |-> None,
     found       |-> [kind |-> "empty"],
     figure      |-> <<>>,
     table_data  |-> <<>>,
     columns     |-> <<>>,
     stored_data |-> StoreEmptyDict,
     card_values |-> Placeholders]

(* An exception leaves the call without a return value; dff is the window  *)
(* the call had computed by then.                                          *)
Raised(dff) == [status |-> "error", df_filtered |-> Some(dff)]

(* The callback on the frame d get_todays_data returned. *)
UpdateDashboard(d, sp, tr, ag, cs, ce) ==
    IF DfEmpty(d) THEN EmptyResult
    ELSE LET params == NormaliseParams(sp)
             dff    == FilterWindow(d, SelectWindow(d, tr, cs, ce))
         IN  IF ~ValidRule(ag) THEN Raised(dff)
             ELSE LET df_agg == Resample(dff, Freq(ag[1]))
                  IN  IF ~Iterable(params) THEN Raised(dff)
                      ELSE IF ~HasLastRow(d) THEN Raised(dff)
                      ELSE [status      |-> "ok",
                            df_filtered |-> Some(dff),
                            found       |-> [kind |-> "rows", agg |-> df_agg],
                            figure      |-> Traces(df_agg, params.val),
                            table_data  |-> df_agg,
                            columns     |-> TableColumns(AggColumns),
                            stored_data |-> ToJson(df_agg),
                            card_values |-> LatestValues(d)]

(* Dash applies the outputs of a call that returned and keeps every output *)
(* as it was when the call raised.                                         *)
Callback(d, sp, tr, ag, cs, ce) ==
    \E r \in {UpdateDashboard(d, sp, tr, ag, cs, ce)} :
        /\ df' = d
        /\ status' = r.status
        /\ df_filtered' = r.df_filtered
        /\ IF r.status = "ok"
           THEN /\ figure' = r.figure
                /\ table_data' = r.table_data
                /\ columns' = r.columns
                /\ stored_data' = r.stored_data
                /\ card_values' = r.card_values
                /\ completed' = r.found
           ELSE UNCHANGED <<outputs, completed>>

----------------------------------------------------------------------------
(* export_data *)

DownloadNone == [kind |-> "none"]

(* dcc.send_data_frame(df.to_excel, ..., sheet_name="Data", index=False) *)
SendDataFrame(rows) == [kind |-> "xlsx", sheet |-> "Data", columns |-> AggColumns, rows |-> rows]

(* not stored_data: None and {} are falsy, a JSON document is not. *)
NothingStored(stored) == stored.kind # "json"

(* Mutant: only a store never written counts as nothing stored. *)
ExportDataAnyStore(clicks, stored) ==
    IF clicks = 0 \/ stored.kind = "none" THEN DownloadNone
    ELSE SendDataFrame(IF stored.kind = "json" THEN ReadJson(stored) ELSE <<>>)

ExportData(clicks, stored) ==
    IF clicks = 0 \/ NothingStored(stored) THEN DownloadNone
    ELSE SendDataFrame(ReadJson(stored))

----------------------------------------------------------------------------
(* The inputs the UI can deliver *)

ParamSelections ==
    { [kind |-> "none", val |-> <<>>],
      [kind |-> "list", val |-> <<>>],
      [kind |-> "str",  val |-> <<"pH">>],
      [kind |-> "list", val |-> <<"pH", "TDS">>] }

RangeChoices == {None} \cup {Some(r) : r \in TIME_RANGES}

AggregationChoices == {None} \cup {Some(a) : a \in AGGREGATIONS}

(* The picker's (start_date, end_date): unset, half set, today..today,     *)
(* today..tomorrow and tomorrow..today.                                    *)
DateChoices ==
    { <<None, None>>, <<Some(0), None>>, <<Some(0), Some(0)>>,
      <<Some(0), Some(1)>>, <<Some(1), Some(0)>> }

(* The layout's initial property values. *)
LayoutOutputs ==
    /\ figure = <<>>
    /\ table_data = <<>>
    /\ columns = <<>>
    /\ stored_data = StoreNone
    /\ card_values = Placeholders
    /\ download = DownloadNone
    /\ n_clicks = 0
    /\ status = "init"
    /\ df_filtered = None
    /\ completed = [kind |-> "none"]

----------------------------------------------------------------------------
(* Spec: the periodic refresh under filter settings the user has chosen.   *)
(* update_dashboard does not read n_intervals, which is left out.          *)

Init ==
    /\ df = <<>>
    /\ selected_params \in ParamSelections
    /\ time_range \in RangeChoices
    /\ aggregation \in AggregationChoices
    /\ \E dates \in DateChoices : custom_start = dates[1] /\ custom_end = dates[2]
    /\ LayoutOutputs

IntervalTick ==
    /\ \E d \in FetchOutcomes(df, MaxReadings, Times) :
          Callback(d, selected_params, time_range, aggregation, custom_start, custom_end)
    /\ UNCHANGED <<inputs, n_clicks, download>>

Next == IntervalTick

Spec == Init /\ [][Next]_vars

----------------------------------------------------------------------------
(* SpecSession: one browser session from page load: refresh ticks, filter  *)
(* changes (each runs update_dashboard) and export clicks.                 *)

(* The timestamps of the session's readings: two in one 10-minute bucket,  *)
(* one two buckets on.                                                     *)
SessionTimes == {0, 5, 25}

SessionParams == {[kind |-> "none", val |-> <<>>], [kind |-> "str", val |-> <<"pH">>]}

SessionRanges == {Some("6H"), Some("Custom")}

SessionAggregations == {None, Some("10T"), Some("D")}

SessionDates == {<<None, None>>, <<Some(1), Some(0)>>}

(* parameter-select 'pH', time-range-select '6H', aggregation-select '10T', *)
(* no dates picked.                                                         *)
SessionInit ==
    /\ df = <<>>
    /\ selected_params = [kind |-> "str", val |-> <<"pH">>]
    /\ time_range = Some("6H")
    /\ aggregation = Some("10T")
    /\ custom_start = None
    /\ custom_end = None
    /\ LayoutOutputs

SessionTick ==
    /\ \E d \in FetchOutcomes(df, SessionMaxReadings, SessionTimes) :
          Callback(d, selected_params, time_range, aggregation, custom_start, custom_end)
    /\ UNCHANGED <<inputs, n_clicks, download>>

SelectParameters ==
    /\ \E v \in SessionParams, d \in FetchOutcomes(df, SessionMaxReadings, SessionTimes) :
          /\ selected_params' = v
          /\ Callback(d, v, time_range, aggregation, custom_start, custom_end)
    /\ UNCHANGED <<time_range, aggregation, custom_start, custom_end, n_clicks, download>>

SelectTimeRange ==
    /\ \E v \in SessionRanges, d \in FetchOutcomes(df, SessionMaxReadings, SessionTimes) :
          /\ time_range' = v
          /\ Callback(d, selected_params, v, aggregation, custom_start, custom_end)
    /\ UNCHANGED <<selected_params, aggregation, custom_start, custom_end, n_clicks, download>>

SelectAggregation ==
    /\ \E v \in SessionAggregations, d \in FetchOutcomes(df, SessionMaxReadings, SessionTimes) :
          /\ aggregation' = v
          /\ Callback(d, selected_params, time_range, v, custom_start, custom_end)
    /\ UNCHANGED <<selected_params, time_range, custom_start, custom_end, n_clicks, download>>

PickDates ==
    /\ \E v \in SessionDates, d \in FetchOutcomes(df, SessionMaxReadings, SessionTimes) :
          /\ custom_start' = v[1]
          /\ custom_end' = v[2]
          /\ Callback(d, selected_params, time_range, aggregation, v[1], v[2])
    /\ UNCHANGED <<selected_params, time_range, aggregation, n_clicks, download>>

(* The click raises n_clicks and export_data runs on the stored value. *)
ExportClick ==
    /\ n_clicks < MaxClicks
    /\ n_clicks' = n_clicks + 1
    /\ download' = ExportData(n_clicks + 1, stored_data)
    /\ UNCHANGED <<df, inputs, outputs, status, df_filtered, completed>>

SessionNext ==
    \/ SessionTick
    \/ SelectParameters
    \/ SelectTimeRange
    \/ SelectAggregation
    \/ PickDates
    \/ ExportClick

SpecSession == SessionInit /\ [][SessionNext]_vars

----------------------------------------------------------------------------
(* Properties *)

Fields == {"pH", "TDS", "Depth", "FlowInd"}

(* The last call returned a result computed from a non-empty store. *)
Rendered == status = "ok" /\ df # <<>>

(* The last call got as far as the window filter. *)
Windowed == status # "init" /\ df # <<>> /\ df_filtered # None

Window == df_filtered[1]

Width ==
    CASE aggregation = Some("10T") -> 10
      [] aggregation = Some("30T") -> 30
      [] aggregation = Some("H")   -> 60
      [] aggregation = Some("4H")  -> 240
      [] aggregation = Some("D")   -> 1440

(* The windowed readings whose timestamp lies in [b, b + Width). *)
InBucket(b) == {i \in 1..Len(Window) : b <= Window[i].timestamp /\ Window[i].timestamp < b + Width}

Newest == CHOOSE r \in {df[i] : i \in 1..Len(df)} :
              \A i \in 1..Len(df) : df[i].timestamp <= r.timestamp

StoredTimestamps ==
    [k \in 1..Len(stored_data.data) |->
        stored_data.data[k][1].day * 1440 + stored_data.data[k][1].hh * 60
            + stored_data.data[k][1].mm]

TableTimestamps == [k \in 1..Len(table_data) |-> table_data[k].timestamp]

(* C1 as stated: every aggregated row (table, chart x, stored data) is the *)
(* row of a bucket that holds at least one windowed reading.               *)
C1_OnlyNonEmptyBuckets ==
    Rendered =>
        /\ \A k \in 1..Len(table_data) : InBucket(table_data[k].timestamp) # {}
        /\ \A k \in 1..Len(StoredTimestamps) : InBucket(StoredTimestamps[k]) # {}
        /\ \A t \in 1..Len(figure) : \A k \in 1..Len(figure[t].x) : InBucket(figure[t].x[k]) # {}

(* C1 amended: a row's bucket holds a windowed reading or lies between two *)
(* buckets that do; every bucket between two non-empty buckets has a row,  *)
(* and the row of a bucket with zero readings has every field missing.     *)
C1_RowsFillTheSpan ==
    Rendered =>
        /\ \A k \in 1..Len(table_data) :
              LET b == table_data[k].timestamp
              IN  /\ \E i, j \in 1..Len(Window) :
                        Window[i].timestamp < b + Width /\ b <= Window[j].timestamp
                  /\ InBucket(b) = {} => \A f \in Fields : table_data[k][f] = NaN
        /\ \A i, j \in 1..Len(Window) : \A b \in Window[i].timestamp..Window[j].timestamp :
              b % Width = 0 => \E k \in 1..Len(table_data) : table_data[k].timestamp = b
        /\ StoredTimestamps = TableTimestamps
        /\ \A t \in 1..Len(figure) : figure[t].x = TableTimestamps

C1_Witness ==
    /\ Rendered
    /\ \E k \in 1..Len(table_data) :
          /\ InBucket(table_data[k].timestamp) = {}
          /\ \E a, b \in 1..Len(table_data) :
                /\ a < k /\ k < b
                /\ InBucket(table_data[a].timestamp) # {}
                /\ InBucket(table_data[b].timestamp) # {}

CustomBoundMissing ==
    time_range = Some("Custom") /\ (custom_start = None \/ custom_end = None)

(* C2 as stated: 'Custom' with a bound missing and a non-empty store: no   *)
(* reading passes the window filter and the table has zero rows.           *)
C2_MissingBoundEmptyWindow ==
    (Windowed /\ CustomBoundMissing) =>
        /\ Window = <<>>
        /\ status = "ok" => table_data = <<>>

(* C2 amended: 'Custom' with a bound missing falls back to the 6-hour      *)
(* window that ends at the newest reading: exactly the readings at most    *)
(* 360 minutes older than the newest pass, the newest among them, and the  *)
(* table has at least one row.                                             *)
C2_MissingBoundFallsBackTo6H ==
    (Windowed /\ CustomBoundMissing) =>
        /\ Window = SelectSeq(df, LAMBDA r : /\ Newest.timestamp - 360 <= r.timestamp
                                             /\ r.timestamp <= Newest.timestamp)
        /\ \E i \in 1..Len(Window) : Window[i] = Newest
        /\ status = "ok" => Len(table_data) >= 1

C2_Witness ==
    /\ Windowed
    /\ CustomBoundMissing
    /\ status = "ok"
    /\ custom_start # None
    /\ Len(Window) < Len(df)

CustomReversed ==
    /\ time_range = Some("Custom")
    /\ custom_start # None
    /\ custom_end # None
    /\ custom_start[1] > custom_end[1]

(* C3: 'Custom' with custom_start later than custom_end and a non-empty    *)
(* store: the window is empty and, an aggregation width and a parameter    *)
(* selection being given, the call returns with zero table rows and        *)
(* traces without points.                                                  *)
C3_ReversedCustomIsEmpty ==
    (status # "init" /\ df # <<>> /\ CustomReversed) =>
        /\ df_filtered = Some(<<>>)
        /\ (aggregation # None /\ selected_params.kind # "none") =>
              /\ status = "ok"
              /\ table_data = <<>>
              /\ stored_data.kind = "json" /\ stored_data.data = <<>>
              /\ \A t \in 1..Len(figure) : figure[t].x = <<>> /\ figure[t].y = <<>>

C3_Witness ==
    /\ status = "ok"
    /\ df # <<>>
    /\ CustomReversed
    /\ Len(figure) = 2

(* C4: a call that finds the store empty returns, whatever the inputs, no  *)
(* trace, no table row, no column, {} for the store and "--" four times,   *)
(* and computes no window.                                                 *)
C4_EmptyStoreShortCircuits ==
    (status # "init" /\ df = <<>>) =>
        /\ status = "ok"
        /\ figure = <<>>
        /\ table_data = <<>>
        /\ columns = <<>>
        /\ stored_data = [kind |-> "dict"]
        /\ card_values = <<"--", "--", "--", "--">>
        /\ df_filtered = None
        /\ completed = [kind |-> "empty"]

C4_Witness ==
    /\ status = "ok"
    /\ df = <<>>
    /\ aggregation = None
    /\ selected_params.kind = "none"
    /\ time_range = Some("Custom")
    /\ custom_start = None

(* C5 as stated: update_dashboard never raises, whatever the store holds   *)
(* and whatever inputs the UI delivers.                                    *)
C5_NeverRaises == status # "error"

(* What f"{x:.2f}" prints for the sample values. *)
TwoDecimals(c) ==
    CASE c = NaN           -> "nan"
      [] c = <<7000, 1>>   -> "7.00"
      [] c = <<7125, 1>>   -> "7.12"
      [] c = <<300125, 1>> -> "300.12"
      [] c = <<0, 1>>      -> "0.00"
      [] c = <<10, 1>>     -> "0.01"

(* C6: the four summary values are the fields of the reading with the      *)
(* greatest timestamp of the whole store, printed with 2 decimals, whatever *)
(* the time range, the custom bounds, the width and the selection are.     *)
C6_SummaryIsNewestReading ==
    Rendered =>
        card_values = <<TwoDecimals(Newest.pH), TwoDecimals(Newest.TDS),
                        TwoDecimals(Newest.Depth), TwoDecimals(Newest.FlowInd)>>

(* The window leaves the newest reading out. *)
C6_Witness ==
    /\ Rendered
    /\ Len(df) = 2
    /\ time_range = Some("Custom")
    /\ \A i \in 1..Len(Window) : Window[i] # Newest
    /\ card_values # <<"7.00", "300.12", "nan", "0.00">>

Duration ==
    CASE time_range = Some("1H")  -> 60
      [] time_range = Some("6H")  -> 360
      [] time_range = Some("12H") -> 720
      [] time_range = Some("1D")  -> 1440
      [] time_range = Some("1W")  -> 10080
      [] OTHER                    -> 360

(* C7: for a range other than 'Custom', a reading is in the window iff     *)
(* end - duration <= timestamp <= end, end the greatest timestamp; the     *)
(* newest reading is in the window.                                        *)
C7_WindowIsInclusive ==
    (Windowed /\ time_range # Some("Custom")) =>
        /\ \A i \in 1..Len(df) :
              (\E k \in 1..Len(Window) : Window[k] = df[i])
                  <=> /\ Newest.timestamp - Duration <= df[i].timestamp
                      /\ df[i].timestamp <= Newest.timestamp
        /\ Len(Window) <= Len(df)
        /\ \E k \in 1..Len(Window) : Window[k] = Newest

(* A reading sits exactly on the lower bound and is kept. *)
C7_Witness ==
    /\ Windowed
    /\ time_range = None
    /\ Len(df) = 2
    /\ df[1].timestamp = Newest.timestamp - 360
    /\ Len(Window) = 2

RECURSIVE SumOver(_, _)
SumOver(S, f) ==
    IF S = {} THEN 0
    ELSE LET i == CHOOSE x \in S : TRUE IN Window[i][f][1] + SumOver(S \ {i}, f)

(* The windowed readings of bucket b that have a value for field f. *)
Present(b, f) == {i \in InBucket(b) : Window[i][f] # NaN}

RECURSIVE WeightedSum(_, _)
WeightedSum(k, f) ==
    IF k = 0 THEN 0
    ELSE LET c == table_data[k][f]
             n == Cardinality(Present(table_data[k].timestamp, f))
         IN  (IF c = NaN THEN 0 ELSE (c[1] * n) \div c[2]) + WeightedSum(k - 1, f)

(* C8: in the row of a non-empty bucket each field is the mean of the      *)
(* bucket's non-missing values of that field, missing when there is none;  *)
(* mean times count, summed over the rows, is the sum of the field's       *)
(* non-missing windowed values.                                            *)
C8_MeanOfPresentValues ==
    Rendered =>
        \A f \in Fields :
            /\ \A k \in 1..Len(table_data) :
                  LET b == table_data[k].timestamp
                      c == table_data[k][f]
                  IN  InBucket(b) # {} =>
                         IF Present(b, f) = {} THEN c = NaN
                         ELSE /\ c # NaN
                              /\ c[2] > 0
                              /\ c[1] * Cardinality(Present(b, f)) = SumOver(Present(b, f), f) * c[2]
            /\ WeightedSum(Len(table_data), f)
                  = SumOver({i \in 1..Len(Window) : Window[i][f] # NaN}, f)

(* One bucket holds two readings: TDS present in one of them only, Depth   *)
(* in none, pH in both with a mean that is no whole number of thousandths. *)
C8_Witness ==
    /\ Rendered
    /\ \E k \in 1..Len(table_data) :
          LET b == table_data[k].timestamp
          IN  /\ Cardinality(InBucket(b)) = 2
              /\ Cardinality(Present(b, "TDS")) = 1
              /\ table_data[k].TDS = <<300125, 1>>
              /\ table_data[k].Depth = NaN
              /\ table_data[k].pH = <<14125, 2>>

(* C9: every bucket_start is a whole multiple of the width from midnight,  *)
(* every windowed reading lies in the bucket of exactly one row, the rows  *)
(* ascend strictly, and chart, table and stored data list them alike.      *)
C9_BucketsAlignedAscending ==
    Rendered =>
        /\ \A k \in 1..Len(table_data) : table_data[k].timestamp % Width = 0
        /\ \A i \in 1..Len(Window) :
              Cardinality({k \in 1..Len(table_data) : i \in InBucket(table_data[k].timestamp)}) = 1
        /\ \A k \in 1..(Len(table_data) - 1) :
              table_data[k].timestamp < table_data[k + 1].timestamp
        /\ StoredTimestamps = TableTimestamps
        /\ \A t \in 1..Len(figure) : figure[t].x = TableTimestamps

C9_Witness ==
    /\ Rendered
    /\ aggregation = Some("4H")
    /\ Len(table_data) = 3
    /\ Len(Window) = 2
    /\ Len(figure) = 2

(* The rows a stored document gives back: a mean whose decimal expansion   *)
(* does not end comes back rounded to 10 decimals.                         *)
AsStored(c) ==
    IF c = NaN \/ c[2] \in {1, 2, 4, 5, 8, 10} THEN c ELSE <<c[1], c[2], 10>>

StoredRows(agg) ==
    [k \in 1..Len(agg) |->
        [timestamp |-> agg[k].timestamp,
         pH        |-> AsStored(agg[k].pH),
         TDS       |-> AsStored(agg[k].TDS),
         Depth     |-> AsStored(agg[k].Depth),
         FlowInd   |-> AsStored(agg[k].FlowInd)]]

(* C10: an export click while no call has returned yet, or while the most  *)
(* recent call that returned found the store empty, produces no file; a    *)
(* file that is produced holds the aggregated rows the most recent call    *)
(* that returned has stored.                                               *)
C10_ExportFollowsLastCompletedRun ==
    [][n_clicks' # n_clicks =>
          /\ completed.kind \in {"none", "empty"} => download' = [kind |-> "none"]
          /\ download'.kind # "none" =>
                /\ completed.kind = "rows"
                /\ download'.rows = StoredRows(completed.agg)]_vars

(* A file was produced and the call after it raised. *)
C10_Witness ==
    /\ download.kind = "xlsx"
    /\ Len(download.rows) >= 1
    /\ status = "error"
    /\ n_clicks = 2

====
